---- MODULE Spec2Model ----
(***************************************************************************)
(* A model of the Blizzard session of src/lib/blizzard/session.js: the id  *)
(* allocator, the request table, the reassembly buffer, the dispatcher,    *)
(* the fail funnel and the frame parser.                                   *)
(*                                                                         *)
(* Ids are IdBits wide instead of 32 bits wide; everything else keeps the  *)
(* values of the source.  JavaScript values are records: [json |-> v] is a *)
(* JSON scalar or literal, [buf |-> bytes] a Buffer, [code, message] an    *)
(* error object, [jsError |-> text] a JavaScript Error, Absent undefined.  *)
(***************************************************************************)
EXTENDS Integers, Sequences, FiniteSets, TLC

\* ---------------------------------------------------------------- bounds
IdBits == 2
MaxRequests == 2
MaxCalls == 1
MaxBuffered == 2
MaxFrames == 1
MaxPeerRequests == 1
MaxPairRequests == 3

\* ------------------------------------------------------------- constants
MAGIC == 89
TYPE_HANDSHAKE == 0
TYPE_JSON == 1
TYPE_RESERVED == 2
TYPE_BUFFER_RESPONSE == 3
MAX_ID == 2 ^ IdBits - 1
ERROR_USER == -32000
ERROR_PARSE == -32700
ERROR_INVALID == -32600
ERROR_METHOD == -32601
ERROR_INTERNAL == -32603

Ids == 0 .. MAX_ID

\* ------------------------------------------------------ JavaScript values
Absent == [absent |-> TRUE]
JNull == [json |-> "null"]
JFalse == [json |-> "false"]
JZero == [json |-> "0"]
JEmptyString == [json |-> "''"]
JThree == [json |-> "3"]
JParams == [json |-> "[1,2]"]
JEmptyArray == [json |-> "[]"]
JEmptyObject == [json |-> "{}"]
PeerError == [code |-> ERROR_USER, message |-> "boom"]

\* ToBoolean of a value: undefined, null, false, 0 and "" are falsy.
Truthy(v) == v \notin {Absent, JNull, JFalse, JZero, JEmptyString}

IsBuffer(v) == DOMAIN v = {"buf"}

\* ---------------------------------------------------------------- state
VARIABLES instigator, writable, methods, sequence, requestCallbacks, streams,
          calls, issued, out, fails, dispatched, invoked, ready, threw,
          returned, invokedCount, arrived, input, wire, parsers, plog,
          peer, toPeer, toLocal, given, delivered

vars == <<instigator, writable, methods, sequence, requestCallbacks, streams,
          calls, issued, out, fails, dispatched, invoked, ready, threw,
          returned, invokedCount, arrived, input, wire, parsers, plog,
          peer, toPeer, toLocal, given, delivered>>

\* The byte-level parser: the bytes the peer sends (input), those not yet
\* delivered by the socket (wire), the parsers listening to the socket and
\* what they have parsed so far (plog).
pvars == <<input, wire, parsers, plog>>

\* Two connected sessions: the session at the other end of the socket (peer),
\* the frames written by either side and not yet parsed by the other (toPeer,
\* toLocal), the replies the peer's handlers gave to done(null, reply), by
\* request id (given), and the completions invoked here (delivered).
pairvars == <<peer, toPeer, toLocal, given, delivered>>

NoThrow == "none"
NoId == -1

\* The session as one record: the fields handlers read and write, and what
\* one handler run produced (frames written, events emitted, the exception).
Cur ==
    [instigator |-> instigator, writable |-> writable, methods |-> methods,
     sequence |-> sequence, requestCallbacks |-> requestCallbacks,
     streams |-> streams, calls |-> calls,
     out |-> <<>>, fails |-> <<>>, dispatched |-> <<>>, invoked |-> <<>>,
     ready |-> FALSE, threw |-> NoThrow, returned |-> NoId]

Commit(s) ==
    /\ sequence' = s.sequence
    /\ requestCallbacks' = s.requestCallbacks
    /\ streams' = s.streams
    /\ calls' = s.calls
    /\ out' = s.out
    /\ fails' = s.fails
    /\ dispatched' = s.dispatched
    /\ invoked' = s.invoked
    /\ ready' = s.ready
    /\ threw' = s.threw
    /\ returned' = s.returned
    /\ invokedCount' =
         [t \in DOMAIN invokedCount |->
            invokedCount[t]
              + Cardinality({i \in DOMAIN s.invoked : s.invoked[i].token = t})]

Throw(s, what) == [s EXCEPT !.threw = what]

Str(text) == [str |-> text]

\* ------------------------------------------------------- JSON documents
\* The value a JSON text denotes: an object with some of the fields the
\* session reads, a top-level array (only its length is read) or null.
Doc(kind, method, params, error, result, length) ==
    [kind |-> kind, method |-> method, params |-> params, error |-> error,
     result |-> result, length |-> length]

Obj(method, params, error, result) ==
    Doc("object", method, params, error, result, Absent)

MalformedText == [malformed |-> TRUE]

\* JSON.stringify of a value: an Error object has no enumerable fields.
StringifyValue(v) == IF DOMAIN v = {"jsError"} THEN JEmptyObject ELSE v

\* JSON.stringify of the objects the session sends: a field whose value is
\* undefined is left out, so it reads back as absent.
Stringify(json) ==
    [json EXCEPT
       !.result = StringifyValue(@),
       !.error = IF DOMAIN @ = {"code", "message"}
                 THEN [@ EXCEPT !.message = StringifyValue(@)]
                 ELSE @]

\* JSON.parse: throws on a malformed text.
ParseThrows(text) == text = MalformedText
JSONParse(text) == text

\* ------------------------------------------------------------- transmit
Frame(type, id, data) == [type |-> type, id |-> id, data |-> data]

ZeroLength == [buf |-> <<>>]

socketReady(s) == s.writable

XferRawZeroLength(s, type, id) ==
    IF ~socketReady(s)
    THEN Throw(s, "AssertionError: Socket not writable.")
    ELSE [s EXCEPT !.out = Append(@, Frame(type, id, ZeroLength))]

XferRaw(s, type, id, buffer) ==
    IF ~socketReady(s)
    THEN Throw(s, "AssertionError: Socket not writable.")
    ELSE [s EXCEPT !.out = Append(@, Frame(type, id, buffer))]

XferObject(s, id, json) ==
    XferRaw(s, TYPE_JSON, id, [text |-> Stringify(json)])

XferBuffer(s, id, buffer) == XferRaw(s, TYPE_BUFFER_RESPONSE, id, buffer)

\* ---------------------------------------------------------- id allocator
\* Mutant: the rollover test is off by one.
SetSequenceOffByOne(newSequence) ==
    IF newSequence >= MAX_ID THEN 0 ELSE newSequence

SetSequence(newSequence) ==
    IF newSequence > MAX_ID THEN 0 ELSE newSequence

NextSequence(s) ==
    LET n == SetSequence(IF s.instigator THEN s.sequence + 2
                         ELSE s.sequence + 1)
    IN  [s EXCEPT !.sequence = n, !.returned = n]

\* Mutant: the sequence is set to the id of the frame, not past it.
UpdateSequenceToId(s, id) ==
    IF id = 0 THEN s
    ELSE IF s.sequence < id
         THEN [s EXCEPT !.sequence = SetSequence(id)]
         ELSE s

UpdateSequence(s, id) ==
    IF id = 0 THEN s
    ELSE IF s.sequence < id
         THEN [s EXCEPT !.sequence = SetSequence(id + 1)]
         ELSE s

\* ----------------------------------------------------------- fail funnel
\* Mutant: a failure is never reported to the peer.
OnFailureSwallows(s, id, code, error) ==
    IF code = ERROR_INTERNAL /\ id = 0
    THEN Throw(s, "Unhandled 'error' event")
    ELSE s

\* Mutant: a failure is reported to the peer at id 0 as at any other id.
OnFailureAlwaysReplies(s, id, code, error) ==
    XferObject(s, id,
      Obj(Absent, Absent, [code |-> code, message |-> error], Absent))

OnFailure(s, id, code, error) ==
    IF id = 0
    THEN IF code = ERROR_INTERNAL
         THEN Throw(s, "Unhandled 'error' event")
         ELSE s
    ELSE XferObject(s, id,
           Obj(Absent, Absent, [code |-> code, message |-> error], Absent))

EmitFail(s, id, code, error) ==
    OnFailure([s EXCEPT !.fails = Append(@, [id |-> id, code |-> code,
                                              error |-> error])],
              id, code, error)

\* ---------------------------------------------------------- request table
Drop(f, k) == [x \in DOMAIN f \ {k} |-> f[x]]
Put(f, k, v) == [x \in DOMAIN f \cup {k} |-> IF x = k THEN v ELSE f[x]]

\* Mutant: a reply for an unknown id is reported even when it is an error.
CallRequestCallbackReplies(s, id, error, result) ==
    LET present == id \in DOMAIN s.requestCallbacks
        freed == [s EXCEPT !.requestCallbacks = Drop(@, id)]
    IN  IF present
        THEN [freed EXCEPT !.invoked =
                Append(@, [token |-> s.requestCallbacks[id], id |-> id,
                           error |-> error, result |-> result])]
        ELSE EmitFail(freed, id, ERROR_INTERNAL,
                      Str("Could not find callback for this ID."))

\* Mutant: the callback is not freed before it is called.
CallRequestCallbackKeeps(s, id, error, result) ==
    IF id \in DOMAIN s.requestCallbacks
    THEN [s EXCEPT !.invoked =
            Append(@, [token |-> s.requestCallbacks[id], id |-> id,
                       error |-> error, result |-> result])]
    ELSE IF ~Truthy(error)
         THEN EmitFail(s, id, ERROR_INTERNAL,
                       Str("Could not find callback for this ID."))
         ELSE s

CallRequestCallback(s, id, error, result) ==
    LET present == id \in DOMAIN s.requestCallbacks
        freed == [s EXCEPT !.requestCallbacks = Drop(@, id)]
    IN  IF present
        THEN [freed EXCEPT !.invoked =
                Append(@, [token |-> s.requestCallbacks[id], id |-> id,
                           error |-> error, result |-> result])]
        ELSE IF ~Truthy(error)
             THEN EmitFail(freed, id, ERROR_INTERNAL,
                           Str("Could not find callback for this ID."))
             ELSE freed

\* ------------------------------------------------------------- dispatcher
OnMessage(s, id, message) ==
    IF Truthy(message.method)
    THEN LET params == IF Truthy(message.params) THEN message.params
                       ELSE JEmptyArray
         IN  IF message.method.str \in s.methods
             THEN [s EXCEPT !.calls =
                     Append(@, [id |-> id, method |-> message.method.str,
                                params |-> params])]
             ELSE EmitFail(s, id, ERROR_METHOD, Str("Method not found."))
    ELSE IF id # 0
         THEN IF Truthy(message.error)
              THEN CallRequestCallback(s, id, message.error, Absent)
              ELSE IF Truthy(message.result)
                   THEN CallRequestCallback(s, id, JNull, message.result)
                   ELSE EmitFail(s, id, ERROR_INVALID,
                          Str("Messages with IDs must contain method, error, or result."))
         ELSE EmitFail(s, id, ERROR_INVALID,
                       Str("Messages without IDs must contain method."))

EmitMessage(s, id, message) ==
    OnMessage([s EXCEPT !.dispatched =
                 Append(@, [id |-> id, message |-> message])],
              id, message)

OnIncomingJSON(s, id, jsonString) ==
    IF ParseThrows(jsonString)
    THEN EmitFail(s, id, ERROR_PARSE, [jsError |-> "Unable to parse JSON"])
    ELSE LET message == JSONParse(jsonString)
         IN  IF message.kind = "null"
             THEN Throw(s, "TypeError: Cannot read property 'length' of null")
             ELSE LET s1 == IF Truthy(message.length)
                            THEN EmitFail(s, id, ERROR_INVALID,
                                   Str("Expected an object, got an array."))
                            ELSE s
                  IN  IF s1.threw # NoThrow THEN s1
                      ELSE EmitMessage(s1, id, message)

\* ------------------------------------------------------ reassembly buffer
\* Mutant: a chunk is put in front of the chunks already buffered.
BufferPutPrepends(s, id, buffer) ==
    IF id \in DOMAIN s.streams
    THEN [s EXCEPT !.streams = Put(@, id, buffer.buf \o s.streams[id])]
    ELSE [s EXCEPT !.streams = Put(@, id, buffer.buf)]

BufferPut(s, id, buffer) ==
    IF id \in DOMAIN s.streams
    THEN [s EXCEPT !.streams = Put(@, id, s.streams[id] \o buffer.buf)]
    ELSE [s EXCEPT !.streams = Put(@, id, buffer.buf)]

BufferComplete(s, id) ==
    IF id \notin DOMAIN s.streams
    THEN EmitFail(s, id, ERROR_INVALID,
           Str("Got final packet for a stream that does not exist."))
    ELSE EmitMessage([s EXCEPT !.streams = Drop(@, id)], id,
           Obj(Absent, Absent, Absent, [buf |-> s.streams[id]]))

\* ------------------------------------------------------------------ reply
\* Mutant: the terminator of a binary reply is written before its payload.
ReplyTerminatorFirst(s, id, message) ==
    IF id = 0
    THEN Throw(s, "Error: id required for reply")
    ELSE IF IsBuffer(message)
         THEN XferBuffer(XferRawZeroLength(s, TYPE_BUFFER_RESPONSE, id),
                         id, message)
         ELSE XferObject(s, id, Obj(Absent, Absent, Absent, message))

Reply(s, id, message) ==
    IF id = 0
    THEN Throw(s, "Error: id required for reply")
    ELSE IF IsBuffer(message)
         THEN LET s1 == XferBuffer(s, id, message)
              IN  IF s1.threw # NoThrow THEN s1
                  ELSE XferRawZeroLength(s1, TYPE_BUFFER_RESPONSE, id)
         ELSE XferObject(s, id, Obj(Absent, Absent, Absent, message))

OnComplete(s, id, error, reply) ==
    IF Truthy(error)
    THEN EmitFail(s, id, ERROR_USER, error)
    ELSE IF id # 0
         THEN Reply(s, id, reply)
         ELSE s

\* ----------------------------------------------------------------- parser
\* One frame of the inbound stream, header and payload: the taps of the
\* parser loop after the magic byte.
ParseHeader(s, type, id) ==
    IF type = TYPE_BUFFER_RESPONSE
    THEN BufferComplete(s, id)
    ELSE IF type = TYPE_HANDSHAKE
         THEN [s EXCEPT !.ready = TRUE]
         ELSE EmitFail(s, id, ERROR_INVALID, Str("Unexpected 0-length header."))

ParsePacket(s, type, id, data) ==
    IF type = TYPE_JSON
    THEN OnIncomingJSON(s, id, data.text)
    ELSE IF type = TYPE_BUFFER_RESPONSE
         THEN BufferPut(s, id, data)
         ELSE EmitFail(s, id, ERROR_INVALID, Str("Unknown packet type."))

OnFrame(s, type, id, data) ==
    LET s1 == UpdateSequence(s, id)
    IN  IF data = ZeroLength
        THEN ParseHeader(s1, type, id)
        ELSE ParsePacket(s1, type, id, data)

\* The parser on the wire.  Binary.stream(socket) buffers what the socket
\* delivers after it was created and runs the loop body: a read waits until
\* its bytes are buffered, a tap runs once the reads before it are done.
\* end() only makes the loop stop after the iteration in progress; start()
\* creates a second parser on the same socket.  Word widths are scaled: the
\* id and the length are one unit each, as the magic byte and the type are.
NewParser ==
    [buf |-> <<>>, pc |-> "magic", type |-> 0, id |-> 0, length |-> 0,
     ended |-> FALSE]

\* word32be("id") yields an id of the width of the id field.
Word(unit) == unit % (MAX_ID + 1)

\* flush() and the test of the loop after one iteration.  A parser whose loop
\* has ended reads nothing more: what it has buffered is never looked at.
Flush(pr) ==
    [pr EXCEPT !.pc = IF pr.ended THEN "stopped" ELSE "magic",
               !.buf = IF pr.ended THEN <<>> ELSE @,
               !.type = 0, !.id = 0, !.length = 0]

\* vars.data.toString("utf8"): the bytes "{}" are the text of an empty
\* object; the other payloads of the model (control bytes, "Y") are not JSON.
BraceOpen == 123
BraceClose == 125
ToStringUtf8(bytes) ==
    IF bytes = <<BraceOpen, BraceClose>>
    THEN Obj(Absent, Absent, Absent, Absent)
    ELSE MalformedText

\* What a parser has parsed: a rejected magic byte, or one frame.
BadMagic == [ev |-> "fail", type |-> 0, id |-> 0, data |-> <<>>]
Parsed(type, id, data) ==
    [ev |-> "frame", type |-> type, id |-> id, data |-> data]

\* The bytes of one frame on the wire.
Wire(f) == <<MAGIC, f.type, f.id, Len(f.data)>> \o f.data

RECURSIVE WireAll(_)
WireAll(frames) ==
    IF frames = <<>> THEN <<>>
    ELSE Wire(Head(frames)) \o WireAll(Tail(frames))

\* ----------------------------------------------------------------- inputs
Chunks == {<<1>>, <<2>>}

ErrorTexts == {Obj(Absent, Absent, PeerError, Absent)}

ResultTexts == {Obj(Absent, Absent, Absent, r) :
                  r \in {JThree, JZero, JFalse, JNull, JEmptyString}}

RequestTexts == {Obj(Str("add"), JParams, Absent, Absent),
                 Obj(Str("nope"), Absent, Absent, Absent)}

\* JSON texts that are not objects: [7], null, 7 and "abc".  A string has a
\* length as an array has; a number has no fields at all.
ArrayText == Doc("array", Absent, Absent, Absent, Absent, [json |-> "1"])
NullText == Doc("null", Absent, Absent, Absent, Absent, Absent)
NumberText == Doc("number", Absent, Absent, Absent, Absent, Absent)
StringText == Doc("string", Absent, Absent, Absent, Absent, [json |-> "3"])

OtherTexts == {MalformedText, NullText, ArrayText, NumberText, StringText}

InboundTexts == ErrorTexts \cup ResultTexts \cup RequestTexts \cup OtherTexts

\* The ids peer frames carry: the lowest ids and the ids next to rollover.
PeerIds == {0, 1, 2, MAX_ID - 1, MAX_ID}

\* The frames a peer can put on the wire, by what they are.
SyncFrames == {Frame(TYPE_HANDSHAKE, id, ZeroLength) : id \in PeerIds}

ReplyFrames ==
    {Frame(TYPE_JSON, id, [text |-> t]) :
       id \in PeerIds, t \in ResultTexts \cup ErrorTexts}

\* The ids of the frames a misbehaving or calling peer sends: none, the
\* first and the last.
CalleeIds == {0, 1, MAX_ID}

RequestFrames ==
    {Frame(TYPE_JSON, id, [text |-> t]) : id \in CalleeIds, t \in RequestTexts}

StreamFrames ==
    {Frame(TYPE_BUFFER_RESPONSE, id, d) :
       id \in PeerIds, d \in {ZeroLength} \cup {[buf |-> c] : c \in Chunks}}

TruthyReplyFrames ==
    {Frame(TYPE_JSON, id, [text |-> t]) :
       id \in PeerIds,
       t \in {Obj(Absent, Absent, Absent, JThree)} \cup ErrorTexts}

\* The ids the first requests of either side get, and the replies a peer
\* can send at them: JSON results, JSON errors and binary replies; a frame
\* at MAX_ID makes the allocator start over, so that ids are used again.
FirstIds == {1, 2}

AnswerFrames ==
    {f \in TruthyReplyFrames : f.id \in FirstIds}
      \cup {Frame(TYPE_BUFFER_RESPONSE, id, d) :
              id \in FirstIds, d \in {ZeroLength, [buf |-> <<1>>]}}
      \cup {Frame(TYPE_HANDSHAKE, MAX_ID, ZeroLength)}

InvalidFrames ==
    {Frame(TYPE_JSON, id, [text |-> t]) : id \in CalleeIds, t \in OtherTexts}
      \cup {Frame(TYPE_JSON, id, ZeroLength) : id \in CalleeIds}
      \cup {Frame(TYPE_RESERVED, id, d) :
              id \in CalleeIds, d \in {ZeroLength, [buf |-> <<1>>]}}
      \cup {Frame(TYPE_HANDSHAKE, id, [buf |-> <<1>>]) : id \in CalleeIds}

\* The frames a peer can send at id 0, whatever they are.
ZeroIdFrames ==
    {f \in SyncFrames \cup ReplyFrames \cup StreamFrames :
       f.id = 0 /\ f.data # [buf |-> <<2>>]}

CalleeFrames == RequestFrames \cup InvalidFrames \cup ZeroIdFrames

HandlerErrors == {JNull, Str("boom")}
HandlerReplies == {JThree, [buf |-> <<1, 2>>], [buf |-> <<>>]}

\* The frames and the stray bytes of the byte-level specification.
PayloadByte == 7
WireFrames ==
    {Frame(TYPE_HANDSHAKE, 0, <<>>),
     Frame(TYPE_JSON, 1, <<BraceOpen, BraceClose>>),
     Frame(TYPE_BUFFER_RESPONSE, 1, <<PayloadByte>>),
     Frame(TYPE_BUFFER_RESPONSE, 1, <<>>)}
StrayByte == 255
WireInputs ==
    {[stray |-> st, frames |-> fs] :
       st \in {<<>>, <<StrayByte>>},
       fs \in UNION {[1 .. n -> WireFrames] : n \in 1 .. MaxFrames}}

\* ------------------------------------------------------------------- Init
\* The session after construction.  The frame-level specifications leave the
\* byte-level parser aside: Receive stands for one aligned frame.
InitSession ==
    /\ instigator \in BOOLEAN
    /\ writable = TRUE
    /\ methods = {"add"}
    /\ sequence = 0
    /\ requestCallbacks = <<>>
    /\ streams = <<>>
    /\ calls = <<>>
    /\ issued = 0
    /\ out = IF instigator
             THEN <<Frame(TYPE_HANDSHAKE, 0, ZeroLength)>>
             ELSE <<>>
    /\ fails = <<>>
    /\ dispatched = <<>>
    /\ invoked = <<>>
    /\ ready = FALSE
    /\ threw = NoThrow
    /\ returned = NoId
    /\ invokedCount = [t \in 1 .. MaxRequests |-> 0]
    /\ arrived = [i \in Ids |-> <<>>]

\* No parser on the wire, no session at the other end.
NoParser ==
    /\ input = [stray |-> <<>>, frames |-> <<>>]
    /\ wire = <<>>
    /\ parsers = <<>>
    /\ plog = <<>>

NoPeer ==
    /\ peer = <<>>
    /\ toPeer = <<>>
    /\ toLocal = <<>>
    /\ given = {}
    /\ delivered = {}

Init ==
    /\ InitSession
    /\ NoParser
    /\ NoPeer

\* ---------------------------------------------------------------- actions
\* request(method, params, cb): cb is the token of the completion, 0 for none.
\* Mutant: an id is allocated whether or not a completion is given.
RequestBodyAlwaysAllocates(s, method, params, cb) ==
    LET rpc == Obj(Str(method), IF Truthy(params) THEN params ELSE Absent,
                   Absent, Absent)
        a == NextSequence(s)
        s1 == IF cb # 0
              THEN [a EXCEPT !.requestCallbacks = Put(@, a.returned, cb)]
              ELSE a
    IN  XferObject(s1, s1.returned, rpc)

RequestBody(s, method, params, cb) ==
    LET rpc == Obj(Str(method), IF Truthy(params) THEN params ELSE Absent,
                   Absent, Absent)
        s1 == IF cb # 0
              THEN LET a == NextSequence(s)
                   IN  [a EXCEPT !.requestCallbacks = Put(@, a.returned, cb)]
              ELSE s
        id == IF cb # 0 THEN s1.returned ELSE 0
    IN  XferObject(s1, id, rpc)

Request(method, params, hasCb) ==
    /\ hasCb => issued < MaxRequests
    /\ Commit(RequestBody(Cur, method, params,
                          IF hasCb THEN issued + 1 ELSE 0))
    /\ issued' = IF hasCb THEN issued + 1 ELSE issued
    /\ UNCHANGED <<instigator, writable, methods, arrived, pvars, pairvars>>

\* The bytes the reassembly buffer holds, over all streams.
RECURSIVE SumLen(_, _)
SumLen(f, S) ==
    IF S = {} THEN 0
    ELSE LET k == CHOOSE x \in S : TRUE
         IN  Len(f[k]) + SumLen(f, S \ {k})

Buffered(f) == SumLen(f, DOMAIN f)

\* The parser reads one frame from the socket and the session handles it.
Receive(type, id, data) ==
    /\ writable
    /\ LET s == OnFrame(Cur, type, id, data)
       IN  /\ Len(s.calls) <= MaxCalls
           /\ Buffered(s.streams) <= MaxBuffered
           /\ Commit(s)
    /\ arrived' = IF type = TYPE_BUFFER_RESPONSE
                  THEN [arrived EXCEPT ![id] =
                          IF data = ZeroLength THEN <<>>
                          ELSE Append(@, data.buf)]
                  ELSE arrived
    /\ UNCHANGED <<instigator, writable, methods, issued, pvars, pairvars>>

\* A handler invoked earlier calls done(error, reply).
HandlerDone(i, error, reply) ==
    /\ i \in DOMAIN calls
    /\ LET s == [Cur EXCEPT !.calls =
                   [k \in 1 .. Len(calls) - 1 |->
                      IF k < i THEN calls[k] ELSE calls[k + 1]]]
       IN  Commit(OnComplete(s, calls[i].id, error, reply))
    /\ UNCHANGED <<instigator, writable, methods, issued, arrived, pvars, pairvars>>

End ==
    /\ writable
    /\ writable' = FALSE
    /\ Commit(Cur)
    /\ UNCHANGED <<instigator, methods, issued, arrived, pvars, pairvars>>

ReceiveFrom(F) == \E f \in F : Receive(f.type, f.id, f.data)

RequestAny == \E hasCb \in BOOLEAN : Request("add", JParams, hasCb)

HandlerDoneAny ==
    \E i \in 1 .. MaxCalls, error \in HandlerErrors,
       reply \in HandlerReplies : HandlerDone(i, error, reply)

\* The session with a peer that answers and syncs ids.
Next ==
    \/ RequestAny
    \/ ReceiveFrom(SyncFrames \cup ReplyFrames)
    \/ End

Spec == Init /\ [][Next]_vars

\* The session with a peer that answers the first requests, in JSON or in
\* binary, as often as it likes.
NextReplies ==
    \/ RequestAny
    \/ ReceiveFrom(AnswerFrames)
    \/ End

SpecReplies == Init /\ [][NextReplies]_vars

\* The session with a peer that streams binary data at any id, between
\* JSON replies.
NextStreams ==
    \/ ReceiveFrom(StreamFrames \cup TruthyReplyFrames)
    \/ End

SpecStreams == Init /\ [][NextStreams]_vars

\* The session with a peer whose frames move the sequence: handshakes and
\* results at the lowest ids and at the ids next to rollover.
SequenceFrames ==
    SyncFrames \cup {f \in TruthyReplyFrames : f.data.text \notin ErrorTexts}

NextSync ==
    \/ RequestAny
    \/ ReceiveFrom(SequenceFrames)
    \/ End

SpecSync == Init /\ [][NextSync]_vars

\* The session as a callee, with a peer that calls methods and misbehaves.
NextCallee ==
    \/ ReceiveFrom(CalleeFrames)
    \/ HandlerDoneAny
    \/ End

SpecCallee == Init /\ [][NextCallee]_vars

\* ------------------------------------------------ two connected sessions
\* What a handler passes to done(error, reply): a truthy JSON value, a falsy
\* one, a buffer, an empty buffer, or an error.
HandlerOutcomes ==
    {[error |-> JNull, reply |-> r] :
       r \in {JThree, JZero, [buf |-> <<1>>], [buf |-> <<>>]}}
      \cup {[error |-> Str("boom"), reply |-> JNull]}

\* The session at the other end after construction.
InitPeer ==
    [instigator |-> ~instigator, writable |-> TRUE, methods |-> {"add"},
     sequence |-> 0, requestCallbacks |-> <<>>, streams |-> <<>>,
     calls |-> <<>>, issued |-> 0,
     out |-> <<>>, fails |-> <<>>, dispatched |-> <<>>, invoked |-> <<>>,
     ready |-> FALSE, threw |-> NoThrow, returned |-> NoId]

\* The instigator's constructor writes the handshake.
InitPair ==
    /\ InitSession
    /\ NoParser
    /\ peer = InitPeer
    /\ toPeer = out
    /\ toLocal = IF instigator THEN <<>>
                 ELSE <<Frame(TYPE_HANDSHAKE, 0, ZeroLength)>>
    /\ given = {}
    /\ delivered = {}

\* The peer before a handler run, and what it keeps of the run.
PeerCur ==
    [peer EXCEPT !.out = <<>>, !.fails = <<>>, !.dispatched = <<>>,
                 !.invoked = <<>>, !.ready = FALSE, !.threw = NoThrow,
                 !.returned = NoId]

Without(calls_, i) ==
    [k \in 1 .. Len(calls_) - 1 |-> IF k < i THEN calls_[k] ELSE calls_[k + 1]]

Completions(s) ==
    {[id |-> s.invoked[k].id, error |-> s.invoked[k].error,
      result |-> s.invoked[k].result] : k \in DOMAIN s.invoked}

LocalUnchanged ==
    UNCHANGED <<instigator, writable, methods, sequence, requestCallbacks,
                streams, calls, issued, out, fails, dispatched, invoked,
                ready, threw, returned, invokedCount, arrived>>

\* request(method, params, cb) on this side.
LocalRequest ==
    /\ issued < MaxRequests
    /\ issued + peer.issued < MaxPairRequests
    /\ LET s == RequestBody(Cur, "add", JParams, issued + 1)
       IN  /\ Commit(s)
           /\ toPeer' = toPeer \o s.out
    /\ issued' = issued + 1
    /\ UNCHANGED <<instigator, writable, methods, arrived, pvars, peer,
                   toLocal, given, delivered>>

\* request(method, params, cb) on the other side.
PeerRequest ==
    /\ peer.issued < MaxPeerRequests
    /\ issued + peer.issued < MaxPairRequests
    /\ LET s == RequestBody(PeerCur, "add", JParams, peer.issued + 1)
       IN  /\ peer' = [s EXCEPT !.issued = @ + 1, !.out = <<>>,
                                !.returned = NoId]
           /\ toLocal' = toLocal \o s.out
    /\ LocalUnchanged
    /\ UNCHANGED <<pvars, toPeer, given, delivered>>

\* This side parses the next frame the peer wrote.
LocalReceive ==
    /\ toLocal # <<>>
    /\ LET f == Head(toLocal)
           s == OnFrame(Cur, f.type, f.id, f.data)
       IN  /\ Len(s.calls) <= MaxCalls
           /\ Commit(s)
           /\ toPeer' = toPeer \o s.out
           /\ delivered' = delivered \cup Completions(s)
    /\ toLocal' = Tail(toLocal)
    /\ UNCHANGED <<instigator, writable, methods, issued, arrived, pvars,
                   peer, given>>

\* The peer parses the next frame this side wrote.
PeerReceive ==
    /\ toPeer # <<>>
    /\ LET f == Head(toPeer)
           s == OnFrame(PeerCur, f.type, f.id, f.data)
       IN  /\ Len(s.calls) <= MaxCalls
           /\ peer' = [s EXCEPT !.out = <<>>, !.fails = <<>>,
                                !.dispatched = <<>>, !.invoked = <<>>,
                                !.ready = FALSE]
           /\ toLocal' = toLocal \o s.out
    /\ toPeer' = Tail(toPeer)
    /\ LocalUnchanged
    /\ UNCHANGED <<pvars, given, delivered>>

\* A handler on this side calls done(error, reply).
LocalHandlerDone(i, error, reply) ==
    /\ i \in DOMAIN calls
    /\ LET s == OnComplete([Cur EXCEPT !.calls = Without(calls, i)],
                           calls[i].id, error, reply)
       IN  /\ Commit(s)
           /\ toPeer' = toPeer \o s.out
    /\ UNCHANGED <<instigator, writable, methods, issued, arrived, pvars,
                   peer, toLocal, given, delivered>>

\* A handler on the other side calls done(error, reply).
PeerHandlerDone(i, error, reply) ==
    /\ i \in DOMAIN peer.calls
    /\ LET id == peer.calls[i].id
           s == OnComplete([PeerCur EXCEPT !.calls = Without(peer.calls, i)],
                           id, error, reply)
       IN  /\ peer' = [s EXCEPT !.out = <<>>, !.fails = <<>>]
           /\ toLocal' = toLocal \o s.out
           /\ given' = IF Truthy(error) THEN given
                       ELSE given \cup {[id |-> id, reply |-> reply]}
    /\ LocalUnchanged
    /\ UNCHANGED <<pvars, toPeer, delivered>>

LocalHandlerDoneFrom(O) ==
    \E i \in 1 .. MaxCalls, o \in O : LocalHandlerDone(i, o.error, o.reply)

PeerHandlerDoneFrom(O) ==
    \E i \in 1 .. MaxCalls, o \in O : PeerHandlerDone(i, o.error, o.reply)

\* Two connected sessions that both call, with handlers that reply a falsy
\* value or a buffer, or fail.
PairOutcomes ==
    {o \in HandlerOutcomes : o.reply \in {JZero, [buf |-> <<1>>], JNull}}

LocalHandlerDoneAny == LocalHandlerDoneFrom(PairOutcomes)

PeerHandlerDoneAny == PeerHandlerDoneFrom(PairOutcomes)

NextPair ==
    \/ LocalRequest
    \/ PeerRequest
    \/ LocalReceive
    \/ PeerReceive
    \/ LocalHandlerDoneAny
    \/ PeerHandlerDoneAny

SpecPair == InitPair /\ [][NextPair]_vars

\* The socket delivers what was written and handlers do call done().
SpecPairFair ==
    /\ SpecPair
    /\ WF_vars(LocalReceive)
    /\ WF_vars(PeerReceive)
    /\ WF_vars(LocalHandlerDoneAny)
    /\ WF_vars(PeerHandlerDoneAny)

\* Two connected sessions of which only this one calls.
PeerAnswers == PeerHandlerDoneFrom(HandlerOutcomes)

NextCaller ==
    \/ LocalRequest
    \/ LocalReceive
    \/ PeerReceive
    \/ PeerAnswers

SpecCaller == InitPair /\ [][NextCaller]_vars

SpecCallerFair ==
    /\ SpecCaller
    /\ WF_vars(LocalReceive)
    /\ WF_vars(PeerReceive)
    /\ WF_vars(PeerAnswers)

\* ------------------------------------------------- byte-level parser
InitParser ==
    /\ InitSession
    /\ input \in WireInputs
    /\ wire = input.stray \o WireAll(input.frames)
    /\ parsers = <<NewParser>>
    /\ plog = <<>>
    /\ NoPeer

ParserUnchanged == UNCHANGED <<instigator, writable, methods, issued, arrived,
                               input, wire, pairvars>>

\* A parser can take the next step of its chain.
CanStep(pr) ==
    \/ pr.pc \in {"magic", "type", "id", "length"} /\ Len(pr.buf) >= 1
    \/ pr.pc = "data" /\ Len(pr.buf) >= pr.length

\* The socket delivers the next n bytes to every parser listening, once the
\* parsers are done with the bytes before: the steps of a chain run from
\* process.nextTick, ahead of the next read of the socket.
SocketData(n) ==
    /\ n \in 1 .. Len(wire)
    /\ \A p \in DOMAIN parsers : ~CanStep(parsers[p])
    /\ wire' = SubSeq(wire, n + 1, Len(wire))
    /\ parsers' = [p \in DOMAIN parsers |->
                     IF parsers[p].pc = "stopped" THEN parsers[p]
                     ELSE [parsers[p] EXCEPT !.buf = @ \o SubSeq(wire, 1, n)]]
    /\ Commit(Cur)
    /\ UNCHANGED <<instigator, writable, methods, issued, arrived, input,
                   plog, pairvars>>

\* word8("magic").tap(parseMagic)
ReadMagic(p) ==
    /\ p \in DOMAIN parsers
    /\ parsers[p].pc = "magic"
    /\ Len(parsers[p].buf) >= 1
    /\ LET pr == parsers[p]
           magic == Head(pr.buf)
           next == [pr EXCEPT !.buf = Tail(@), !.pc = "type"]
       IN  IF magic # MAGIC
           THEN /\ Commit(EmitFail(Cur, 0, ERROR_INVALID,
                            Str("Unexpected value for magic byte.")))
                /\ parsers' = Append([parsers EXCEPT
                                        ![p] = [next EXCEPT !.ended = TRUE]],
                                     NewParser)
                /\ plog' = Append(plog, BadMagic)
           ELSE /\ Commit(Cur)
                /\ parsers' = [parsers EXCEPT ![p] = next]
                /\ plog' = plog
    /\ ParserUnchanged

\* word8("type")
ReadType(p) ==
    /\ p \in DOMAIN parsers
    /\ parsers[p].pc = "type"
    /\ Len(parsers[p].buf) >= 1
    /\ parsers' = [parsers EXCEPT ![p] =
                     [@ EXCEPT !.type = Head(parsers[p].buf),
                               !.buf = Tail(@), !.pc = "id"]]
    /\ Commit(Cur)
    /\ plog' = plog
    /\ ParserUnchanged

\* word32be("id")
ReadId(p) ==
    /\ p \in DOMAIN parsers
    /\ parsers[p].pc = "id"
    /\ Len(parsers[p].buf) >= 1
    /\ parsers' = [parsers EXCEPT ![p] =
                     [@ EXCEPT !.id = Word(Head(parsers[p].buf)),
                               !.buf = Tail(@), !.pc = "length"]]
    /\ Commit(Cur)
    /\ plog' = plog
    /\ ParserUnchanged

\* word32be("length"), tap(updateSequence), tap(parseHeader); with no payload
\* parsePacket does nothing and the iteration is over.
ReadLength(p) ==
    /\ p \in DOMAIN parsers
    /\ parsers[p].pc = "length"
    /\ Len(parsers[p].buf) >= 1
    /\ LET pr == parsers[p]
           length == Head(pr.buf)
           next == [pr EXCEPT !.buf = Tail(@), !.length = length,
                              !.pc = "data"]
           s1 == UpdateSequence(Cur, pr.id)
       IN  IF length = 0
           THEN /\ Commit(ParseHeader(s1, pr.type, pr.id))
                /\ parsers' = [parsers EXCEPT ![p] = Flush(next)]
                /\ plog' = Append(plog, Parsed(pr.type, pr.id, <<>>))
           ELSE /\ Commit(s1)
                /\ parsers' = [parsers EXCEPT ![p] = next]
                /\ plog' = plog
    /\ ParserUnchanged

\* buffer("data", vars.length), tap(parsePacket), flush()
ReadData(p) ==
    /\ p \in DOMAIN parsers
    /\ parsers[p].pc = "data"
    /\ Len(parsers[p].buf) >= parsers[p].length
    /\ LET pr == parsers[p]
           bytes == SubSeq(pr.buf, 1, pr.length)
           data == IF pr.type = TYPE_JSON
                   THEN [text |-> ToStringUtf8(bytes)]
                   ELSE [buf |-> bytes]
           next == [pr EXCEPT !.buf = SubSeq(@, pr.length + 1, Len(@))]
       IN  /\ Commit(ParsePacket(Cur, pr.type, pr.id, data))
           /\ parsers' = [parsers EXCEPT ![p] = Flush(next)]
           /\ plog' = Append(plog, Parsed(pr.type, pr.id, bytes))
    /\ ParserUnchanged

SocketDataAny == \E n \in 1 .. Len(wire) : SocketData(n)

NextParser ==
    \/ SocketDataAny
    \/ \E p \in DOMAIN parsers : ReadMagic(p)
    \/ \E p \in DOMAIN parsers : ReadType(p)
    \/ \E p \in DOMAIN parsers : ReadId(p)
    \/ \E p \in DOMAIN parsers : ReadLength(p)
    \/ \E p \in DOMAIN parsers : ReadData(p)

SpecParser == InitParser /\ [][NextParser]_vars

\* ------------------------------------------------------------------ claims
ErrorReply == Obj(Absent, Absent, PeerError, Absent)
ResultReply(r) == Obj(Absent, Absent, Absent, r)
RequestText == Obj(Str("add"), JParams, Absent, Absent)
JsonValues == {JThree, JZero, JFalse, JNull, JEmptyString}

\* C1: every id nextSequence returns is even on an instigator session and
\* odd on a non-instigator session, the rollover to 0 aside.
IdParity ==
    (returned # NoId /\ returned # 0) =>
        IF instigator THEN returned % 2 = 0 ELSE returned % 2 = 1

\* C2: a completion registered by request() is invoked at most once, whatever
\* frames arrive: duplicate replies, error replies, binary replies.
AtMostOnceCompletion == \A t \in DOMAIN invokedCount : invokedCount[t] <= 1

\* The only completion registered (id 1) has been invoked, and a second
\* reply at id 1 has just been dispatched without invoking anything.
AtMostOnceWitness ==
    /\ ~instigator /\ issued = 1 /\ sequence = 1
    /\ invokedCount[1] = 1
    /\ Len(dispatched) = 1 /\ dispatched[1].id = 1
    /\ invoked = <<>>
    /\ Len(fails) = 1 /\ fails[1].code = ERROR_INTERNAL

\* C3: a JSON frame at an id other than 0 that carries an error object and
\* no method, arriving while the request table has no entry for the id,
\* writes no frame and raises no failure.
NoReplyLoop ==
    [][\A id \in Ids \ {0} :
         (/\ Receive(TYPE_JSON, id, [text |-> ErrorReply])
          /\ id \notin DOMAIN requestCallbacks) =>
            /\ out' = <<>>
            /\ fails' = <<>>
            /\ threw' = NoThrow]_vars

NoReplyLoopWitness ==
    /\ dispatched = <<[id |-> 1, message |-> ErrorReply]>>
    /\ invoked = <<>>
    /\ out = <<>>

\* C4: one or more non-empty BUFFER_RESPONSE frames at an id followed by the
\* zero-length terminator at that id dispatch exactly one message at the id,
\* {result: the chunks concatenated in arrival order}, and remove
\* streams[id]; a data frame dispatches nothing.
RECURSIVE Flatten(_)
Flatten(chunks) ==
    IF chunks = <<>> THEN <<>> ELSE Head(chunks) \o Flatten(Tail(chunks))

BinaryReassembly ==
    [][\A id \in Ids :
         /\ (Receive(TYPE_BUFFER_RESPONSE, id, ZeroLength)
               /\ arrived[id] # <<>>) =>
              /\ dispatched' =
                   <<[id |-> id,
                      message |-> ResultReply([buf |-> Flatten(arrived[id])])]>>
              /\ id \notin DOMAIN streams'
         /\ \A c \in Chunks :
              Receive(TYPE_BUFFER_RESPONSE, id, [buf |-> c]) =>
                /\ dispatched' = <<>>
                /\ id \in DOMAIN streams']_vars

BinaryReassemblyWitness ==
    /\ dispatched = <<[id |-> 1, message |-> ResultReply([buf |-> <<1, 2>>])]>>
    /\ 1 \notin DOMAIN streams
    /\ arrived[1] = <<>>

\* C5: request(method, params) without a completion, on a writable socket,
\* writes exactly one JSON frame with id 0, leaves the request table as it
\* was and does not advance sequence.
NotificationSemantics ==
    [][(Request("add", JParams, FALSE) /\ writable) =>
         /\ out' = <<Frame(TYPE_JSON, 0, [text |-> RequestText])>>
         /\ requestCallbacks' = requestCallbacks
         /\ sequence' = sequence
         /\ threw' = NoThrow]_vars

NotificationWitness ==
    /\ out = <<Frame(TYPE_JSON, 0, [text |-> RequestText])>>
    /\ returned = NoId
    /\ sequence # 0
    /\ requestCallbacks # <<>>

\* C6: from every sequence value s, nextSequence returns s + step (2 for an
\* instigator, 1 otherwise) when that does not exceed MAX_ID and 0
\* otherwise, and sequence becomes the value returned; so a non-instigator
\* at MAX_ID gets 0 and then 1.
Rollover ==
    [][Request("add", JParams, TRUE) =>
         LET step == IF instigator THEN 2 ELSE 1
         IN  /\ returned' = IF sequence + step <= MAX_ID
                            THEN sequence + step ELSE 0
             /\ sequence' = returned'
             /\ (~instigator /\ sequence = MAX_ID) => returned' = 0
             /\ (~instigator /\ sequence = 0) => returned' = 1]_vars

RolloverWitness ==
    /\ ~instigator
    /\ returned = 0
    /\ sequence = 0
    /\ issued > 0

\* C8: a JSON message at an id other than 0 with a result field and neither
\* method nor error removes the pending completion of the id and invokes it
\* with (null, result), whatever JSON value the result is, and emits no
\* failure.
SuccessReplyDelivery ==
    [][\A id \in Ids \ {0}, r \in JsonValues :
         (/\ Receive(TYPE_JSON, id, [text |-> ResultReply(r)])
          /\ id \in DOMAIN requestCallbacks) =>
            /\ invoked' = <<[token |-> requestCallbacks[id], id |-> id,
                             error |-> JNull, result |-> r]>>
            /\ id \notin DOMAIN requestCallbacks'
            /\ fails' = <<>>]_vars

\* C9: the request table never has an entry with key 0.
NoCompletionAtIdZero == 0 \notin DOMAIN requestCallbacks

\* C10: request() with a completion never allocates an id for which the
\* request table still holds a pending entry.
NeverReusedWhilePending ==
    [][Request("add", JParams, TRUE) =>
         returned' \notin DOMAIN requestCallbacks]_vars

\* Every byte is delivered and no parser can take a step.
Quiescent == wire = <<>> /\ \A p \in DOMAIN parsers : ~CanStep(parsers[p])

FramesParsed(frames) ==
    [i \in DOMAIN frames |->
       Parsed(frames[i].type, frames[i].id, frames[i].data)]

\* An aligned stream is parsed frame by frame, however the socket chunks it.
AlignedStreamParses ==
    (input.stray = <<>> /\ Quiescent) => plog = FramesParsed(input.frames)

AlignedStreamWitness ==
    /\ input.stray = <<>> /\ Quiescent /\ Len(input.frames) = MaxFrames
    /\ plog = FramesParsed(input.frames)

\* C7: after one stray non-magic byte in front of valid frames the parser
\* reports exactly one fail(0, INVALID), consumes only that byte, and parses
\* and dispatches the frames that follow as if the byte had not been there.
MagicResync ==
    (input.stray # <<>> /\ Quiescent) =>
        plog = <<BadMagic>> \o FramesParsed(input.frames)

\* C11: a JSON frame whose payload is a non-empty top-level array gives
\* exactly one failure (id, ERROR_INVALID) and is not dispatched: no message,
\* no handler, no completion consumed, at most one error frame.
TopLevelArrayRejected ==
    [][\A id \in CalleeIds :
         Receive(TYPE_JSON, id, [text |-> ArrayText]) =>
           /\ Len(fails') = 1
           /\ fails'[1].id = id /\ fails'[1].code = ERROR_INVALID
           /\ dispatched' = <<>>
           /\ Len(out') <= 1
           /\ calls' = calls
           /\ requestCallbacks' = requestCallbacks]_vars

\* C12: handling an inbound frame on a writable session never ends in an
\* exception, whatever its type, id and payload.
ProtocolFailuresNeverThrow ==
    [][(\E f \in CalleeFrames : Receive(f.type, f.id, f.data)) =>
         threw' = NoThrow]_vars

\* C13: a request naming a method that is not in the method table invokes
\* no handler; at an id other than 0 exactly one JSON error frame with
\* ERROR_METHOD is sent at that id, at id 0 nothing is sent.
UnknownMethodText == Obj(Str("nope"), Absent, Absent, Absent)

UnknownMethodReply(id) ==
    Frame(TYPE_JSON, id,
          [text |-> Obj(Absent, Absent,
                        [code |-> ERROR_METHOD,
                         message |-> Str("Method not found.")],
                        Absent)])

UnknownMethod ==
    [][\A id \in CalleeIds :
         Receive(TYPE_JSON, id, [text |-> UnknownMethodText]) =>
           /\ calls' = calls
           /\ invoked' = <<>>
           /\ threw' = NoThrow
           /\ out' = IF id # 0 THEN <<UnknownMethodReply(id)>> ELSE <<>>]_vars

UnknownMethodWitness ==
    /\ out = <<UnknownMethodReply(MAX_ID)>>
    /\ Len(fails) = 1 /\ fails[1].code = ERROR_METHOD
    /\ calls = <<>>

\* C16: whatever arrives at id 0, and however the handler of a notification
\* completes, the session writes no frame in response.
IdZeroNeverAnswered ==
    [][/\ (\E f \in CalleeFrames :
             f.id = 0 /\ Receive(f.type, f.id, f.data)) => out' = <<>>
       /\ \A i \in 1 .. MaxCalls :
            (/\ i \in DOMAIN calls
             /\ calls[i].id = 0
             /\ \E error \in HandlerErrors, reply \in HandlerReplies :
                  HandlerDone(i, error, reply)) => out' = <<>>]_vars

\* A notification was received, its handler ran and failed: the failure is
\* swallowed.
IdZeroWitness ==
    /\ Len(fails) = 1 /\ fails[1].id = 0 /\ fails[1].code = ERROR_USER
    /\ out = <<>>
    /\ calls = <<>>

\* C15: sequence never decreases except by rollover to 0; a peer frame with
\* id # 0 and id > sequence sets it to id + 1 (0 if id = MAX_ID); a peer
\* frame with id = 0 or id <= sequence leaves it as it is.
SequenceSync ==
    [][/\ sequence' >= sequence \/ sequence' = 0
       /\ \A f \in SequenceFrames :
            Receive(f.type, f.id, f.data) =>
              sequence' = IF f.id # 0 /\ f.id > sequence
                          THEN IF f.id = MAX_ID THEN 0 ELSE f.id + 1
                          ELSE sequence]_vars

\* The sequence was moved to MAX_ID by a peer frame, not by requests.
SequenceSyncWitness ==
    /\ sequence = MAX_ID
    /\ issued = 0
    /\ arrived = [i \in Ids |-> <<>>]
    /\ writable

\* C18: request() on a socket that is not writable fails and leaves the
\* session as it was: no entry added to the request table, sequence not
\* advanced.
FailedRequestLeavesState ==
    [][\A hasCb \in BOOLEAN :
         (Request("add", JParams, hasCb) /\ ~writable) =>
           /\ threw' # NoThrow
           /\ requestCallbacks' = requestCallbacks
           /\ sequence' = sequence]_vars

\* C14: frames reach the wire in the order they were written, and a binary
\* reply(id, payload) puts the payload frame and then the zero-length
\* terminator at the same id on the wire, next to each other, whatever else
\* the two sessions are doing.
BinaryReply(id, payload) ==
    <<Frame(TYPE_BUFFER_RESPONSE, id, payload),
      Frame(TYPE_BUFFER_RESPONSE, id, ZeroLength)>>

ReplyOrdering ==
    [][/\ \/ toPeer' = toPeer \o out'
          \/ toPeer' = toPeer
          \/ toPeer # <<>> /\ toPeer' = Tail(toPeer)
       /\ \A i \in DOMAIN calls, o \in PairOutcomes :
            (/\ IsBuffer(o.reply)
             /\ ~Truthy(o.error)
             /\ calls[i].id # 0
             /\ LocalHandlerDone(i, o.error, o.reply)) =>
               toPeer' = toPeer \o BinaryReply(calls[i].id, o.reply)]_vars

\* A binary reply was written behind a request of this side that the peer
\* has not parsed yet.
ReplyOrderingWitness ==
    /\ Len(toPeer) >= 3
    /\ Len(out) = 2
    /\ out = BinaryReply(out[1].id, [buf |-> <<1>>])
    /\ SubSeq(toPeer, Len(toPeer) - 1, Len(toPeer)) = out
    /\ toPeer[Len(toPeer) - 2].type = TYPE_JSON

\* C17: an error reply never makes the session that parses it write a frame,
\* a reply for an id without completion is answered by at most one frame, an
\* error reply at that id, and the two sessions come to rest.
IsErrorFrame(f) == f.type = TYPE_JSON /\ Truthy(f.data.text.error)

IsReplyFrame(f) ==
    \/ f.type = TYPE_BUFFER_RESPONSE
    \/ f.type = TYPE_JSON /\ ~Truthy(f.data.text.method)

PairAtRest == toPeer = <<>> /\ toLocal = <<>>

Replies == {o.reply : o \in HandlerOutcomes}

EndToEndCompletion ==
    \A id \in Ids, r \in Replies :
       ([id |-> id, reply |-> r] \in given)
         ~> ([id |-> id, error |-> JNull, result |-> r] \in delivered)

\* Where the exchange ends for a reply of 0, and for an empty buffer: nothing
\* left on the wire, no handler pending, the completion still in the table.
FalsyReplyLost ==
    /\ PairAtRest /\ peer.calls = <<>>
    /\ [id |-> 1, reply |-> JZero] \in given
    /\ 1 \in DOMAIN requestCallbacks
    /\ delivered = {}

EmptyBufferReplyLost ==
    /\ PairAtRest /\ peer.calls = <<>>
    /\ [id |-> 1, reply |-> [buf |-> <<>>]] \in given
    /\ 1 \in DOMAIN requestCallbacks
    /\ delivered = {}

\* What does arrive: a truthy value and a buffer that is not empty.
TruthyRepliesDelivered ==
    \A id \in Ids \ {0}, r \in {JThree, [buf |-> <<1>>]} :
       ([id |-> id, reply |-> r] \in given)
         ~> ([id |-> id, error |-> JNull, result |-> r] \in delivered)

\* C20: a completion registered at id i is invoked only by what the peer
\* says about that very request; so never while the peer's handler for the
\* request is still running, and never while the request is still on the
\* wire.
IsRequestFrame(f) == f.type = TYPE_JSON /\ Truthy(f.data.text.method)

CorrelationIntegrity ==
    [][LocalReceive =>
         \A k \in DOMAIN invoked' :
            /\ \A c \in DOMAIN peer.calls : peer.calls[c].id # invoked'[k].id
            /\ \A m \in DOMAIN toPeer :
                 ~(IsRequestFrame(toPeer[m])
                     /\ toPeer[m].id = invoked'[k].id)]_vars

\* The completion of this side's request at id 2 was invoked with the
\* peer's ERROR_INVALID about a result frame this side sent at id 2, while
\* the peer's handler for the request is still running.
CrossTalk ==
    /\ Len(invoked) = 1
    /\ invoked[1].id = 2
    /\ invoked[1].error = [code |-> ERROR_INVALID,
                           message |-> Str("Messages with IDs must contain method, error, or result.")]
    /\ Len(peer.calls) = 1 /\ peer.calls[1].id = 2
    /\ ~instigator

====
